---- MODULE Spec2Model ----
(***************************************************************************)
(* Model of the POST /tithing handler of app/main.py: request validation,  *)
(* the row loop over the decoded CSV records (date parse, range filter,    *)
(* amount parse, sign filter, substring match, accumulation), the tithe    *)
(* computation and the two report renderings.                              *)
(*                                                                         *)
(* Text is modelled as a sequence of one-character strings, so that        *)
(* strip / replace / lower / substring / parsing are computed.  A Decimal  *)
(* is a record [kind, sign, coef, exp] whose coefficient is a sequence of  *)
(* decimal digits (most significant first, <<>> for zero), so that the     *)
(* 28-digit context precision of Python's decimal module is kept.          *)
(***************************************************************************)
EXTENDS Integers, Sequences, FiniteSets, TLC

----------------------------------------------------------------------------
(* Generic helpers on sequences of characters / digits.                    *)

DigitChars == <<"0", "1", "2", "3", "4", "5", "6", "7", "8", "9">>

IsDigit(c) == c \in {"0", "1", "2", "3", "4", "5", "6", "7", "8", "9"}

DigitVal(c) == CASE c = "0" -> 0 [] c = "1" -> 1 [] c = "2" -> 2 [] c = "3" -> 3
                 [] c = "4" -> 4 [] c = "5" -> 5 [] c = "6" -> 6 [] c = "7" -> 7
                 [] c = "8" -> 8 [] c = "9" -> 9

AllDigits(s) == \A i \in 1..Len(s) : IsDigit(s[i])

Zeros(n) == [i \in 1..n |-> 0]

\* int(text) for a non-empty run of digit characters
RECURSIVE IntOf(_)
IntOf(s) == IF s = <<>> THEN 0
            ELSE 10 * IntOf(SubSeq(s, 1, Len(s) - 1)) + DigitVal(s[Len(s)])

\* the digit characters of the digit values ds
CharsOf(ds) == [i \in 1..Len(ds) |-> DigitChars[ds[i] + 1]]

\* n written with at least w digit characters, zero padded (n >= 0)
RECURSIVE PadInt(_, _)
PadInt(n, w) == IF n < 10 /\ w <= 1 THEN <<DigitChars[n + 1]>>
                ELSE Append(PadInt(n \div 10, w - 1), DigitChars[(n % 10) + 1])

\* first index of character c in s, 0 when absent
FirstIndex(s, c) ==
    LET at == {i \in 1..Len(s) : s[i] = c}
    IN  IF at = {} THEN 0 ELSE CHOOSE i \in at : \A j \in at : i <= j

\* str.strip(): surrounding whitespace removed
RECURSIVE LStrip(_)
LStrip(s) == IF s # <<>> /\ Head(s) = " " THEN LStrip(Tail(s)) ELSE s

RECURSIVE RStrip(_)
RStrip(s) == IF s # <<>> /\ s[Len(s)] = " " THEN RStrip(SubSeq(s, 1, Len(s) - 1)) ELSE s

Strip(s) == RStrip(LStrip(s))

\* str.replace(",", "")
RemoveCommas(s) == SelectSeq(s, LAMBDA c : c # ",")

UpperChars == <<"A", "B", "C", "D", "E", "F", "G", "H", "I", "J", "K", "L", "M",
               "N", "O", "P", "Q", "R", "S", "T", "U", "V", "W", "X", "Y", "Z">>
LowerChars == <<"a", "b", "c", "d", "e", "f", "g", "h", "i", "j", "k", "l", "m",
               "n", "o", "p", "q", "r", "s", "t", "u", "v", "w", "x", "y", "z">>

\* str.lower() on ASCII text
LowerChar(c) == IF \E i \in 1..26 : UpperChars[i] = c
                THEN LowerChars[CHOOSE i \in 1..26 : UpperChars[i] = c]
                ELSE c

Lower(s) == [i \in 1..Len(s) |-> LowerChar(s[i])]

\* needle in hay
Contains(hay, needle) ==
    \E i \in 0..(Len(hay) - Len(needle)) : SubSeq(hay, i + 1, i + Len(needle)) = needle

----------------------------------------------------------------------------
(* Decimal arithmetic as the decimal module performs it in its default     *)
(* context: precision 28, ROUND_HALF_EVEN, Emax 999999, traps on Overflow  *)
(* and InvalidOperation.                                                   *)

Prec  == 28
Emax  == 999999
Etiny == 0 - Emax - Prec + 1

Fin(sign, coef, exp) == [kind |-> "finite", sign |-> sign, coef |-> coef, exp |-> exp]
Inf(sign)            == [kind |-> "inf", sign |-> sign, coef |-> <<>>, exp |-> 0]
NaN                  == [kind |-> "nan", sign |-> 0, coef |-> <<>>, exp |-> 0]
\* the outcome of an operation that raises instead of returning a value
Raised(name)         == [kind |-> name, sign |-> 0, coef |-> <<>>, exp |-> 0]

IsValue(d) == d.kind \in {"finite", "inf", "nan"}
IsZero(d)  == d.kind = "finite" /\ d.coef = <<>>

\* a digit sequence without its leading zeros
StripZeros(ds) ==
    LET at == {i \in 1..Len(ds) : ds[i] # 0}
    IN  IF at = {} THEN <<>>
        ELSE SubSeq(ds, CHOOSE i \in at : \A j \in at : i <= j, Len(ds))

\* a * k + b + c on digit sequences a, b of equal length, k a digit, c a
\* carry below 10: the carry out followed by Len(a) digits (the sequences
\* are halved and the low half is computed before its carry is handed to
\* the high half, so that the evaluation stays shallow)
RECURSIVE MulAdd(_, _, _, _)
MulAdd(a, k, b, c) ==
    LET n == Len(a)
    IN  IF n = 0 THEN <<c>>
        ELSE IF n = 1 THEN LET s == a[1] * k + b[1] + c IN <<s \div 10, s % 10>>
        ELSE LET h  == n \div 2
                 lo == MulAdd(SubSeq(a, h + 1, n), k, SubSeq(b, h + 1, n), c)
             IN  IF lo[1] = 0
                 THEN MulAdd(SubSeq(a, 1, h), k, SubSeq(b, 1, h), 0) \o Tail(lo)
                 ELSE MulAdd(SubSeq(a, 1, h), k, SubSeq(b, 1, h), lo[1]) \o Tail(lo)

\* a + b on digit sequences
AddDigits(a, b) ==
    LET n == IF Len(a) > Len(b) THEN Len(a) ELSE Len(b)
    IN  StripZeros(MulAdd(Zeros(n - Len(a)) \o a, 1, Zeros(n - Len(b)) \o b, 0))

\* ds + 1 on a digit sequence
Incr(ds) == AddDigits(ds, <<1>>)

\* a * b on digit sequences (long multiplication over the digits of b)
RECURSIVE MulDigits(_, _)
MulDigits(a, b) ==
    IF b = <<>> \/ a = <<>> THEN <<>>
    ELSE AddDigits(Append(MulDigits(a, SubSeq(b, 1, Len(b) - 1)), 0),
                   StripZeros(MulAdd(a, b[Len(b)], Zeros(Len(a)), 0)))

\* adjusted exponent of a non-zero finite value
Adjusted(d) == Len(d.coef) + d.exp - 1

\* does dropping the digits after position keep round the kept part up?
RoundsUp(ds, keep, mode) ==
    LET first == ds[keep + 1]
        rest  == SubSeq(ds, keep + 2, Len(ds))
        exactHalf == first = 5 /\ rest = Zeros(Len(rest))
        lastEven  == keep = 0 \/ ds[keep] % 2 = 0
    IN  IF mode = "ROUND_HALF_UP" THEN first >= 5
        ELSE \* ROUND_HALF_EVEN
             IF exactHalf THEN ~lastEven ELSE first >= 5

\* Decimal._rescale(exp, rounding) of a finite value
Rescale(d, exp, mode) ==
    IF d.coef = <<>> THEN Fin(d.sign, <<>>, exp)
    ELSE IF d.exp >= exp THEN Fin(d.sign, d.coef \o Zeros(d.exp - exp), exp)
    ELSE LET keep == Len(d.coef) + d.exp - exp
             src  == IF keep < 0 THEN <<1>> ELSE d.coef
             k    == IF keep < 0 THEN 0 ELSE keep
             kept == SubSeq(src, 1, k)
         IN  Fin(d.sign,
                 StripZeros(IF RoundsUp(src, k, mode) THEN Incr(kept) ELSE kept),
                 exp)

\* Decimal._fix(context): clamp a zero's exponent, trap Overflow, round to
\* the context precision (or to Etiny for a subnormal) with ROUND_HALF_EVEN
Fix(d) ==
    IF d.kind # "finite" THEN d
    ELSE IF d.coef = <<>>
         THEN Fin(d.sign, <<>>,
                  IF d.exp < Etiny THEN Etiny ELSE IF d.exp > Emax THEN Emax ELSE d.exp)
    ELSE IF Adjusted(d) > Emax THEN Raised("Overflow")
    ELSE LET top    == d.exp + Len(d.coef) - Prec
             target == IF top < Etiny THEN Etiny ELSE top
         IN  IF d.exp >= target THEN d
             ELSE LET r == Rescale(d, target, "ROUND_HALF_EVEN")
                      n == IF Len(r.coef) > Prec
                           THEN Fin(r.sign, SubSeq(r.coef, 1, Prec), r.exp + 1)
                           ELSE r
                  IN  IF n.coef # <<>> /\ Adjusted(n) > Emax
                      THEN Raised("Overflow") ELSE n

\* Decimal(text): the constructor is exact (no context rounding); text that is
\* no number raises InvalidOperation (ConversionSyntax)
DecimalOf(text) ==
    LET signed == text # <<>> /\ Head(text) \in {"+", "-"}
        sign   == IF signed /\ Head(text) = "-" THEN 1 ELSE 0
        body   == IF signed THEN Tail(text) ELSE text
        low    == Lower(body)
        ePos   == FirstIndex(low, "e")
        mant   == IF ePos = 0 THEN body ELSE SubSeq(body, 1, ePos - 1)
        expo   == IF ePos = 0 THEN <<>> ELSE SubSeq(body, ePos + 1, Len(body))
        eSigned == expo # <<>> /\ Head(expo) \in {"+", "-"}
        eDigits == IF eSigned THEN Tail(expo) ELSE expo
        eOk    == ePos = 0 \/ (eDigits # <<>> /\ AllDigits(eDigits))
        eVal   == IF ePos = 0 THEN 0
                  ELSE IF eSigned /\ Head(expo) = "-" THEN 0 - IntOf(eDigits)
                  ELSE IntOf(eDigits)
        dot    == FirstIndex(mant, ".")
        intp   == IF dot = 0 THEN mant ELSE SubSeq(mant, 1, dot - 1)
        frac   == IF dot = 0 THEN <<>> ELSE SubSeq(mant, dot + 1, Len(mant))
        mOk    == AllDigits(intp) /\ AllDigits(frac) /\ Len(intp) + Len(frac) > 0
        digits == [i \in 1..(Len(intp) + Len(frac)) |->
                      DigitVal((intp \o frac)[i])]
    IN  IF low \in {<<"i", "n", "f">>, <<"i", "n", "f", "i", "n", "i", "t", "y">>}
        THEN Inf(sign)
        ELSE IF low = <<"n", "a", "n">> THEN NaN
        ELSE IF mOk /\ eOk THEN Fin(sign, StripZeros(digits), eVal - Len(frac))
        ELSE Raised("InvalidOperation")

\* a <= 0: an ordering comparison with a NaN raises InvalidOperation
LeZero(d) == IF d.kind = "nan" THEN "InvalidOperation"
             ELSE IF d.sign = 1 \/ IsZero(d) THEN "true" ELSE "false"

\* Decimal.__add__ for two non-negative values (the running total and an
\* amount that passed the sign filter), in the default context
DecAdd(a, b) ==
    IF a.kind = "inf" \/ b.kind = "inf" THEN Inf(0)
    ELSE LET minExp == IF a.exp < b.exp THEN a.exp ELSE b.exp
             capped(x) == IF minExp > x.exp - Prec - 1 THEN minExp ELSE x.exp - Prec - 1
         IN  IF IsZero(a) /\ IsZero(b) THEN Fix(Fin(0, <<>>, minExp))
             ELSE IF IsZero(a) THEN Fix(Rescale(b, capped(b), "ROUND_HALF_EVEN"))
             ELSE IF IsZero(b) THEN Fix(Rescale(a, capped(a), "ROUND_HALF_EVEN"))
             ELSE LET hi  == IF a.exp < b.exp THEN b ELSE a
                      lo  == IF a.exp < b.exp THEN a ELSE b
                      d   == Len(hi.coef) - Prec - 2
                      e   == hi.exp + (IF d < 0 - 1 THEN d ELSE 0 - 1)
                      lo2 == IF Adjusted(lo) < e THEN Fin(0, <<1>>, e) ELSE lo
                      hi2 == hi.coef \o Zeros(hi.exp - lo2.exp)
                  IN  Fix(Fin(0, AddDigits(hi2, lo2.coef), lo2.exp))

\* Decimal.__mul__ for two non-negative values, in the default context
DecMul(a, b) ==
    IF a.kind = "inf" \/ b.kind = "inf"
    THEN IF IsZero(a) \/ IsZero(b) THEN Raised("InvalidOperation") ELSE Inf(0)
    ELSE Fix(Fin(0, MulDigits(a.coef, b.coef), a.exp + b.exp))

\* Decimal.quantize(Decimal("0.01"), rounding=ROUND_HALF_UP)
Quantize2(d) ==
    IF d.kind # "finite" THEN Raised("InvalidOperation")
    ELSE IF d.coef = <<>> THEN Fin(d.sign, <<>>, 0 - 2)
    ELSE IF Adjusted(d) > Emax \/ Adjusted(d) + 2 + 1 > Prec
         THEN Raised("InvalidOperation")
    ELSE LET r == Rescale(d, 0 - 2, "ROUND_HALF_UP")
         IN  IF Len(r.coef) > Prec THEN Raised("InvalidOperation") ELSE r

\* f"{d:.2f}": rounded to two places with the context rounding (half even),
\* without any precision limit
FormatF2(d) ==
    IF d.kind = "inf" THEN <<"I", "n", "f", "i", "n", "i", "t", "y">>
    ELSE IF d.kind = "nan" THEN <<"N", "a", "N">>
    ELSE LET r  == Rescale(d, 0 - 2, "ROUND_HALF_EVEN")
             ds == IF Len(r.coef) < 3 THEN Zeros(3 - Len(r.coef)) \o r.coef ELSE r.coef
             cs == CharsOf(ds)
         IN  (IF r.sign = 1 THEN <<"-">> ELSE <<>>)
             \o SubSeq(cs, 1, Len(cs) - 2) \o <<".">> \o SubSeq(cs, Len(cs) - 1, Len(cs))

----------------------------------------------------------------------------
(* Dates: datetime.strptime(...).date() and date.isoformat().  A date is   *)
(* <<year, month, day>>; BadDate stands for the ValueError strptime raises.*)

BadDate == <<0, 0, 0>>

IsLeap(y) == (y % 4 = 0 /\ y % 100 # 0) \/ y % 400 = 0

DaysIn(m, y) == IF m = 2 THEN (IF IsLeap(y) THEN 29 ELSE 28)
                ELSE IF m \in {4, 6, 9, 11} THEN 30 ELSE 31

\* the three fields of text around two separators sep, <<>> when text has not
\* exactly two of them
SplitThree(text, sep) ==
    LET p1   == FirstIndex(text, sep)
        rest == SubSeq(text, p1 + 1, Len(text))
        p2   == FirstIndex(rest, sep)
        last == SubSeq(rest, p2 + 1, Len(rest))
    IN  IF p1 = 0 \/ p2 = 0 \/ FirstIndex(last, sep) # 0 THEN <<>>
        ELSE <<SubSeq(text, 1, p1 - 1), SubSeq(rest, 1, p2 - 1), last>>

\* %m : 1[0-2]|0[1-9]|[1-9]
MonthField(f) == Len(f) \in {1, 2} /\ AllDigits(f) /\ IntOf(f) \in 1..12

\* %d : 3[01]|[12]\d|0[1-9]|[1-9]| [1-9]
DayField(f) ==
    \/ Len(f) \in {1, 2} /\ AllDigits(f) /\ IntOf(f) \in 1..31
    \/ Len(f) = 2 /\ f[1] = " " /\ IsDigit(f[2]) /\ DigitVal(f[2]) >= 1

DayValue(f) == IF f[1] = " " THEN DigitVal(f[2]) ELSE IntOf(f)

\* %Y : \d\d\d\d
YearField(f) == Len(f) = 4 /\ AllDigits(f)

MakeDate(yf, mf, df) ==
    IF YearField(yf) /\ MonthField(mf) /\ DayField(df)
       /\ IntOf(yf) >= 1 /\ DayValue(df) <= DaysIn(IntOf(mf), IntOf(yf))
    THEN <<IntOf(yf), IntOf(mf), DayValue(df)>>
    ELSE BadDate

\* datetime.strptime(s, "%Y-%m-%d").date()
ParseIsoDate(s) ==
    LET f == SplitThree(s, "-")
    IN  IF f = <<>> THEN BadDate ELSE MakeDate(f[1], f[2], f[3])

\* parse_date(s): strptime(s.strip(), "%m/%d/%Y").date()
parse_date(s) ==
    LET f == SplitThree(Strip(s), "/")
    IN  IF f = <<>> THEN BadDate ELSE MakeDate(f[3], f[1], f[2])

\* a <= b on dates
DateLe(a, b) ==
    \/ a[1] < b[1]
    \/ a[1] = b[1] /\ a[2] < b[2]
    \/ a[1] = b[1] /\ a[2] = b[2] /\ a[3] <= b[3]

\* date.isoformat()
IsoFormat(d) == PadInt(d[1], 4) \o <<"-">> \o PadInt(d[2], 2) \o <<"-">> \o PadInt(d[3], 2)

\* parse_decimal(s): s is never None here (fields are strings)
parse_decimal(s) ==
    LET t == RemoveCommas(Strip(s))
        u == IF t # <<>> /\ Head(t) = "+" THEN Tail(t) ELSE t
    IN  DecimalOf(u)

\* compute_tithe(total, rate)
compute_tithe(t, r) ==
    LET m == DecMul(t, r)
    IN  IF IsValue(m) THEN Quantize2(m) ELSE m

----------------------------------------------------------------------------
(* The request: query parameters and the uploaded file.  The upload is     *)
(* modelled as the records csv.reader yields for it, in order; an empty    *)
(* upload is the empty sequence (an upload of bytes that hold no record,   *)
(* such as a lone byte order mark, is not among the inputs).  rate is      *)
(* modelled by str(rate), the text Decimal(str(rate)) is built from.       *)

MaxRows == 2

\* the records of the upload are drawn from these
RowSet ==
    {\* a blank line: csv.reader yields an empty record
     <<>>,
     \* a header line
     <<<<"D", "a", "t", "e">>,
       <<"A", "m", "o", "u", "n", "t">>,
       <<"T", "y", "p", "e">>,
       <<>>,
       <<"D", "e", "s", "c", "r", "i", "p", "t", "i", "o", "n">>>>,
     \* dated on the start bound; amount with '+', ',' and a half cent
     <<<<"0", "9", "/", "0", "1", "/", "2", "0", "2", "5">>,
       <<"+", "1", ",", "2", "3", "4", ".", "5", "6", "5">>,
       <<"*">>,
       <<>>,
       <<" ", "P", "A", "Y", " ">>>>,
     \* dated on the end bound; lower-case description; a sixth field
     <<<<"0", "9", "/", "3", "0", "/", "2", "0", "2", "5">>,
       <<"0", ".", "0", "4", "6">>,
       <<"*">>,
       <<>>,
       <<"p", "a", "y">>,
       <<"x">>>>,
     \* dated after the end bound; amount not numeric
     <<<<"1", "0", "/", "0", "1", "/", "2", "0", "2", "5">>,
       <<"a", "b", "c">>,
       <<"*">>,
       <<>>,
       <<"P", "A", "Y">>>>,
     \* in range (padded, one-digit month); amount not numeric
     <<<<" ", "9", "/", "3", "0", "/", "2", "0", "2", "5", " ">>,
       <<"a", "b", "c">>,
       <<"*">>,
       <<>>,
       <<"P", "A", "Y">>>>,
     \* a short record: the date only
     <<<<"0", "9", "/", "3", "0", "/", "2", "0", "2", "5">>>>,
     \* a debit
     <<<<"0", "9", "/", "3", "0", "/", "2", "0", "2", "5">>,
       <<"-", "2", "0", "0", ".", "0", "0">>,
       <<"*">>,
       <<>>,
       <<"P", "A", "Y">>>>,
     \* a zero amount
     <<<<"0", "9", "/", "3", "0", "/", "2", "0", "2", "5">>,
       <<"0", ".", "0", "0">>,
       <<"*">>,
       <<>>,
       <<"P", "A", "Y">>>>,
     \* an amount whose tithe needs more than 28 digits
     <<<<"0", "9", "/", "3", "0", "/", "2", "0", "2", "5">>,
       <<"1", "e", "2", "7">>,
       <<"*">>,
       <<>>,
       <<"P", "A", "Y">>>>,
     \* an amount beyond Emax
     <<<<"0", "9", "/", "3", "0", "/", "2", "0", "2", "5">>,
       <<"1", "e", "1", "0", "0", "0", "0", "0", "0">>,
       <<"*">>,
       <<>>,
       <<"P", "A", "Y">>>>,
     \* an amount of 28 significant digits
     <<<<"0", "9", "/", "3", "0", "/", "2", "0", "2", "5">>,
       <<"2", ".", "0", "0", "9", "9", "9", "9", "9", "9", "9", "9", "9", "9", "9", "9", "9", "9", "9", "9", "9", "9", "9", "9", "9", "9", "9", "9", "9">>,
       <<"*">>,
       <<>>,
       <<"P", "A", "Y">>>>}

\* <<start, end>>
RangeTexts ==
    {\* a month
     <<<<"2", "0", "2", "5", "-", "0", "9", "-", "0", "1">>,
       <<"2", "0", "2", "5", "-", "0", "9", "-", "3", "0">>>>,
     \* a single day
     <<<<"2", "0", "2", "5", "-", "0", "9", "-", "3", "0">>,
       <<"2", "0", "2", "5", "-", "0", "9", "-", "3", "0">>>>,
     \* end before start
     <<<<"2", "0", "2", "5", "-", "0", "9", "-", "3", "0">>,
       <<"2", "0", "2", "5", "-", "0", "9", "-", "2", "9">>>>,
     \* start in another format
     <<<<"0", "9", "/", "0", "1", "/", "2", "0", "2", "5">>,
       <<"2", "0", "2", "5", "-", "0", "9", "-", "3", "0">>>>,
     \* end no calendar date
     <<<<"2", "0", "2", "5", "-", "0", "9", "-", "0", "1">>,
       <<"2", "0", "2", "5", "-", "0", "9", "-", "3", "1">>>>}

\* desc_contains
NeedleTexts == {<<"P", "A", "Y">>}

\* <<case_insensitive, str(rate), format>>: every pair of settings occurs
Options ==
    {<<TRUE, <<"0", ".", "1">>, "json">>,
     <<TRUE, <<"0", ".", "5">>, "csv">>,
     <<FALSE, <<"0", ".", "1">>, "csv">>,
     <<FALSE, <<"0", ".", "5">>, "json">>}

\* every sequence over S of length at most n
SeqsUpTo(S, n) == UNION {[1..k -> S] : k \in 0..n}

VARIABLES start, end, desc_contains, rate, case_insensitive, format, data,
          pc, start_date, end_date, rate_dec, needle,
          line_no, matches, total, errors, tithe, response

vars == <<start, end, desc_contains, rate, case_insensitive, format, data,
          pc, start_date, end_date, rate_dec, needle,
          line_no, matches, total, errors, tithe, response>>

request == <<start, end, desc_contains, rate, case_insensitive, format, data>>

locals == <<start_date, end_date, rate_dec, needle>>

\* a local that has not been assigned
Unset == Raised("unset")

Zero == Fin(0, <<>>, 0)

\* RangeOk as it would be had the check been written end_date <= start_date
RangeOk_Strict == ~DateLe(ParseIsoDate(end), ParseIsoDate(start))

\* do the date-range bounds parse, and is the range in order?
BoundsParse == ParseIsoDate(start) # BadDate /\ ParseIsoDate(end) # BadDate
RangeOk     == DateLe(ParseIsoDate(start), ParseIsoDate(end))

Init ==
    /\ \E r \in RangeTexts : start = r[1] /\ end = r[2]
    /\ desc_contains \in NeedleTexts
    /\ \E o \in Options : case_insensitive = o[1] /\ rate = o[2] /\ format = o[3]
    /\ data \in SeqsUpTo(RowSet, MaxRows)
    /\ pc = "start"
    /\ start_date = BadDate
    /\ end_date = BadDate
    /\ rate_dec = Unset
    /\ needle = <<>>
    /\ line_no = 0
    /\ matches = <<>>
    /\ errors = <<>>
    /\ total = Unset
    /\ tithe = Unset
    /\ response = <<>>

\* HTTPException(400) raised before the loop
Reject(detail) ==
    /\ pc' = "rejected"
    /\ response' = <<"400", detail>>
    /\ UNCHANGED <<request, locals, line_no, matches, total, errors, tithe>>

RejectDates ==
    /\ pc = "start"
    /\ ~BoundsParse
    /\ Reject("Dates must be in YYYY-MM-DD format")

RejectRange ==
    /\ pc = "start"
    /\ BoundsParse
    /\ ~RangeOk
    /\ Reject("end must be on/after start")

RejectEmpty ==
    /\ pc = "start"
    /\ BoundsParse
    /\ RangeOk
    /\ data = <<>>
    /\ Reject("Empty upload")

Begin ==
    /\ pc = "start"
    /\ BoundsParse
    /\ RangeOk
    /\ data # <<>>
    /\ start_date' = ParseIsoDate(start)
    /\ end_date' = ParseIsoDate(end)
    /\ rate_dec' = DecimalOf(rate)
    /\ needle' = (IF case_insensitive THEN Lower(desc_contains) ELSE desc_contains)
    /\ pc' = "rows"
    /\ matches' = <<>>
    /\ total' = Zero
    /\ errors' = <<>>
    /\ UNCHANGED <<request, line_no, tithe, response>>

\* iter_csv_rows: a record shorter than 5 fields is padded; the loop then
\* reads the first 5 fields
Fields(row) == SubSeq(row \o [i \in 1..5 |-> <<>>], 1, 5)

\* IsHeaderLine as it would be had the lines been counted from 0
IsHeaderLine_ZeroBased(n) == n = 0

\* the date failure of this line is taken for a header line
IsHeaderLine(n) == n = 1

\* start_date <= txn_date <= end_date
InRange(d) == DateLe(start_date, d) /\ DateLe(d, end_date)

\* total += amount
Accumulate(t, amount) == DecAdd(t, amount)

\* Error as it would be had the lines been counted from 0
Error_ZeroBased(n, detail, text) == [line |-> n - 1, detail |-> detail, text |-> text]

\* the diagnostic of line n
Error(n, detail, text) == [line |-> n, detail |-> detail, text |-> text]

\* Record as it would be had the diagnostic been inserted at the front
Record_Prepend(list, e) == <<e>> \o list

\* errors.append(...)
Record(list, e) == Append(list, e)

Skip == [kind |-> "skip"]

\* one iteration of the loop body on the record at line n, with running
\* total t: what the iteration does
RowOutcome(n, row, t) ==
    LET f           == Fields(row)
        txn_date    == parse_date(f[1])
        amount      == parse_decimal(f[2])
        sign        == LeZero(amount)
        description == Strip(f[5])
        hay         == IF case_insensitive THEN Lower(description) ELSE description
        sum         == Accumulate(t, amount)
        Fail(detail, text) == [kind |-> "error", error |-> Error(n, detail, text)]
    IN  IF txn_date = BadDate
        THEN (IF IsHeaderLine(n) THEN Skip
              ELSE Fail("Invalid date value (expected MM/DD/YYYY)", f[1]))
        ELSE IF ~InRange(txn_date) THEN Skip
        ELSE IF ~IsValue(amount) THEN Fail("Invalid amount value", f[2])
        ELSE IF sign = "InvalidOperation" THEN Fail("InvalidOperation", f[2])
        ELSE IF sign = "true" THEN Skip
        ELSE IF ~Contains(hay, needle) THEN Skip
        ELSE IF ~IsValue(sum) THEN Fail(sum.kind, f[2])
        ELSE [kind |-> "match", total |-> sum,
              record |-> [date |-> IsoFormat(txn_date),
                          amount |-> FormatF2(amount),
                          description |-> description]]

\* the loop takes the next record from the reader
ProcessRow ==
    /\ pc = "rows"
    /\ line_no < Len(data)
    /\ line_no' = line_no + 1
    /\ LET row == data[line_no + 1]
           out == RowOutcome(line_no + 1, row, total)
       IN  IF row = <<>> \/ out.kind = "skip"
           THEN UNCHANGED <<matches, total, errors>>
           ELSE IF out.kind = "error"
           THEN /\ errors' = Record(errors, out.error)
                /\ UNCHANGED <<matches, total>>
           ELSE /\ total' = out.total
                /\ matches' = Append(matches, out.record)
                /\ UNCHANGED errors
    /\ UNCHANGED <<request, locals, pc, tithe, response>>

\* the reader is exhausted: tithe = compute_tithe(total, rate_dec); an
\* exception here is not handled (the request fails with a server error)
ComputeTithe ==
    /\ pc = "rows"
    /\ line_no = Len(data)
    /\ LET t == compute_tithe(total, rate_dec)
       IN  IF IsValue(t)
           THEN /\ tithe' = t
                /\ pc' = "render"
                /\ UNCHANGED response
           ELSE /\ pc' = "failed"
                /\ response' = <<"500", t.kind>>
                /\ UNCHANGED tithe
    /\ UNCHANGED <<request, locals, line_no, matches, total, errors>>

\* PerRow as it would be had the contribution been rounded with the context
\* rounding (half even) instead of compute_tithe's ROUND_HALF_UP
PerRow_HalfEven(r) ==
    LET m == DecMul(DecimalOf(r.amount), rate_dec)
    IN  IF IsValue(m) /\ m.kind = "finite" THEN Rescale(m, 0 - 2, "ROUND_HALF_EVEN") ELSE m

\* the per-row contribution of the csv report
PerRow(r) == compute_tithe(DecimalOf(r.amount), rate_dec)

RenderCsv ==
    /\ pc = "render"
    /\ format = "csv"
    /\ LET per == [i \in 1..Len(matches) |-> PerRow(matches[i])]
       IN  IF \A i \in 1..Len(matches) : IsValue(per[i])
           THEN /\ pc' = "done"
                /\ response' =
                     <<"csv",
                       [i \in 1..Len(matches) |->
                          <<matches[i].date,
                            FormatF2(DecimalOf(matches[i].amount)),
                            matches[i].description,
                            FormatF2(per[i])>>],
                       <<"TOTAL", FormatF2(total), <<>>, FormatF2(tithe)>>>>
           ELSE /\ pc' = "failed"
                /\ response' = <<"500", "InvalidOperation">>
    /\ UNCHANGED <<request, locals, line_no, matches, total, errors, tithe>>

RenderJson ==
    /\ pc = "render"
    /\ format = "json"
    /\ pc' = "done"
    /\ response' = <<"json",
                     [count |-> Len(matches),
                      total_deposits |-> FormatF2(total),
                      tithe |-> FormatF2(tithe),
                      rows |-> matches,
                      errors |-> errors]>>
    /\ UNCHANGED <<request, locals, line_no, matches, total, errors, tithe>>

Next ==
    \/ RejectDates
    \/ RejectRange
    \/ RejectEmpty
    \/ Begin
    \/ ProcessRow
    \/ ComputeTithe
    \/ RenderCsv
    \/ RenderJson

Spec == Init /\ [][Next]_vars

----------------------------------------------------------------------------
(* What the properties below are stated with: the records of the request,  *)
(* read with the parsers, and decimal arithmetic without the context.      *)

\* the date, amount and trimmed description of the record at line i
DateOf(i)   == parse_date(Fields(data[i])[1])
AmountOf(i) == parse_decimal(Fields(data[i])[2])
DescOf(i)   == Strip(Fields(data[i])[5])

\* the date of line i lies between the bounds of the request, both included
Within(i) ==
    /\ DateLe(ParseIsoDate(start), DateOf(i))
    /\ DateLe(DateOf(i), ParseIsoDate(end))

\* the amount of line i is a number above zero
Positive(i) == IsValue(AmountOf(i)) /\ LeZero(AmountOf(i)) = "false"

\* the description of line i contains desc_contains under the case rule
Mentions(i) ==
    IF case_insensitive THEN Contains(Lower(DescOf(i)), Lower(desc_contains))
    ELSE Contains(DescOf(i), desc_contains)

\* line i passes every filter stage
Qualifies(i) ==
    /\ data[i] # <<>>
    /\ DateOf(i) # BadDate
    /\ Within(i)
    /\ Positive(i)
    /\ Mentions(i)

\* the elements of a set of line numbers, in increasing order
InOrder(S) ==
    CHOOSE f \in [1..Cardinality(S) -> S] :
        \A i, j \in 1..Cardinality(S) : i < j => f[i] < f[j]

\* a diagnostic names line i
HasError(i) == \E k \in 1..Len(errors) : errors[k].line = i

\* the loop is about to take a record that is not blank
AtRow == pc = "rows" /\ line_no < Len(data) /\ data[line_no + 1] # <<>>

\* one diagnostic was appended, for the line just taken, with this detail
Appended(detail) ==
    /\ Len(errors') = Len(errors) + 1
    /\ SubSeq(errors', 1, Len(errors)) = errors
    /\ errors'[Len(errors')].line = line_no + 1
    /\ errors'[Len(errors')].detail = detail

\* a + b and a * b of finite non-negative values, exactly
ExactAdd(a, b) ==
    LET m == IF a.exp < b.exp THEN a.exp ELSE b.exp
    IN  Fin(0, AddDigits(a.coef \o Zeros(a.exp - m), b.coef \o Zeros(b.exp - m)), m)

ExactMul(a, b) == Fin(0, MulDigits(a.coef, b.coef), a.exp + b.exp)

\* two finite non-negative values are the same number
NumEq(a, b) ==
    LET m == IF a.exp < b.exp THEN a.exp ELSE b.exp
    IN  /\ a.kind = "finite"
        /\ b.kind = "finite"
        /\ a.coef \o Zeros(IF a.coef = <<>> THEN 0 ELSE a.exp - m)
             = b.coef \o Zeros(IF b.coef = <<>> THEN 0 ELSE b.exp - m)

\* a finite value rounded half up to two places
HalfUp2(d) == Rescale(d, 0 - 2, "ROUND_HALF_UP")

----------------------------------------------------------------------------
(* C4: the header heuristic.                                               *)

\* C4: when the date of a record does not parse, the record is left out of
\* the match list and of the total; on line 1 nothing is recorded, and on
\* any other line exactly one diagnostic is appended, for that line.
C4_DateFailure ==
    [][(AtRow /\ DateOf(line_no + 1) = BadDate) =>
          /\ matches' = matches
          /\ total' = total
          /\ IF line_no + 1 = 1 THEN errors' = errors
             ELSE Appended("Invalid date value (expected MM/DD/YYYY)")]_vars

\* a header on line 1 went unrecorded and the same record on line 2 was
\* recorded
C4_Witness ==
    /\ pc = "rows"
    /\ line_no = 2
    /\ data[1] # <<>>
    /\ data[2] # <<>>
    /\ DateOf(1) = BadDate
    /\ DateOf(2) = BadDate
    /\ Len(errors) = 1
    /\ errors[1].line = 2
    /\ matches = <<>>

----------------------------------------------------------------------------
(* C5: an amount that is no number.                                        *)

\* the amount text of line i is not empty and is no number
NotNumeric(i) == Strip(Fields(data[i])[2]) # <<>> /\ ~IsValue(AmountOf(i))

\* C5 as stated: every record after line 1 whose amount text is no number
\* gets a diagnostic for its line, whatever its date is, and is left out of
\* the match list and of the total.
C5_AsStated ==
    [][(AtRow /\ line_no + 1 # 1 /\ NotNumeric(line_no + 1)) =>
          /\ matches' = matches
          /\ total' = total
          /\ Len(errors') = Len(errors) + 1
          /\ errors'[Len(errors')].line = line_no + 1]_vars

\* C5 amended: a record after line 1 whose amount text is no number is left
\* out of the match list and of the total; it gets the amount diagnostic for
\* its line when its date parses and lies in the range, the date diagnostic
\* for its line when its date does not parse, and no diagnostic at all when
\* its date parses and lies outside the range (the amount is never read).
C5_NonNumericAmount ==
    [][(AtRow /\ line_no + 1 # 1 /\ NotNumeric(line_no + 1)) =>
          /\ matches' = matches
          /\ total' = total
          /\ IF DateOf(line_no + 1) = BadDate
             THEN Appended("Invalid date value (expected MM/DD/YYYY)")
             ELSE IF Within(line_no + 1) THEN Appended("Invalid amount value")
             ELSE errors' = errors]_vars

\* line 2 is in the range with an amount that is no number, and has its
\* diagnostic
C5_Witness ==
    /\ pc = "rows"
    /\ line_no = 2
    /\ data[2] # <<>>
    /\ NotNumeric(2)
    /\ DateOf(2) # BadDate
    /\ Within(2)
    /\ errors # <<>>
    /\ errors[Len(errors)].line = 2
    /\ errors[Len(errors)].detail = "Invalid amount value"

----------------------------------------------------------------------------
(* C7: the per-row contribution of the csv report.                         *)

\* the lines in the match list: they pass every stage and raised nothing
MatchedLines(n) == InOrder({i \in 1..n : Qualifies(i) /\ ~HasError(i)})

\* the contribution column of the csv report
Contribution(i) == response[2][i][4]

----------------------------------------------------------------------------
(* C8: a failing record does not stop the loop.                            *)

\* handling the record at line i with running total t raises
Raises(i, t) ==
    IF DateOf(i) = BadDate THEN TRUE
    ELSE IF ~Within(i) THEN FALSE
    ELSE IF ~IsValue(AmountOf(i)) THEN TRUE
    ELSE IF LeZero(AmountOf(i)) # "false" THEN LeZero(AmountOf(i)) = "InvalidOperation"
    ELSE Mentions(i) /\ ~IsValue(DecAdd(t, AmountOf(i)))

\* the loop goes on to the next record with the match list and the total as
\* they were
GoesOn ==
    /\ pc' = "rows"
    /\ line_no' = line_no + 1
    /\ matches' = matches
    /\ total' = total

\* one diagnostic was appended for the line just taken, after those of the
\* earlier lines
AppendedInOrder ==
    /\ Len(errors') = Len(errors) + 1
    /\ SubSeq(errors', 1, Len(errors)) = errors
    /\ errors'[Len(errors')].line = line_no + 1
    /\ \A k \in 1..Len(errors) : errors[k].line < line_no + 1

\* the loop ended only after the last record
AllTaken == pc \in {"render", "done", "failed"} => line_no = Len(data)

\* C8 as stated: a record that raises leaves the loop running on the same
\* match list and total, and contributes exactly one diagnostic, appended in
\* row order.
C8_AsStated ==
    /\ [][(AtRow /\ Raises(line_no + 1, total)) => (GoesOn /\ AppendedInOrder)]_vars
    /\ []AllTaken

\* C8 amended: a record that raises leaves the loop running on the same match
\* list and total; it contributes exactly one diagnostic, appended in row
\* order, except that a date failure on line 1 contributes none.
C8_FailureGoesOn ==
    /\ [][(AtRow /\ Raises(line_no + 1, total)) =>
             /\ GoesOn
             /\ IF line_no + 1 = 1 /\ DateOf(1) = BadDate
                THEN errors' = errors
                ELSE AppendedInOrder]_vars
    /\ []AllTaken

\* line 1 raised and has its diagnostic; line 2 was matched after it
C8_Witness ==
    /\ pc = "rows"
    /\ line_no = 2
    /\ Len(errors) = 1
    /\ errors[1].line = 1
    /\ Len(matches) = 1
    /\ Qualifies(2)

----------------------------------------------------------------------------
(* C10: rejection of the request.                                          *)

\* a bound does not parse, the end precedes the start, or the upload is empty
BadRequest ==
    \/ ParseIsoDate(start) = BadDate
    \/ ParseIsoDate(end) = BadDate
    \/ ~DateLe(ParseIsoDate(start), ParseIsoDate(end))
    \/ data = <<>>

\* C10: a request is rejected exactly when a bound does not parse, the end
\* precedes the start or the upload is empty (equal bounds are accepted);
\* a rejected request took no record, has no match, no diagnostic, no total
\* and no tithe, and is answered with a request-level error.
C10_Rejection ==
    /\ pc # "start" => (pc = "rejected" <=> BadRequest)
    /\ pc = "rejected" =>
          /\ line_no = 0
          /\ matches = <<>>
          /\ errors = <<>>
          /\ total = Unset
          /\ tithe = Unset
          /\ response[1] = "400"
    /\ (pc # "start" /\ data # <<>> /\ ParseIsoDate(start) # BadDate
          /\ start = end) => pc # "rejected"

\* a request with records whose end precedes its start was rejected
C10_Witness ==
    /\ pc = "rejected"
    /\ data # <<>>
    /\ ParseIsoDate(start) # BadDate
    /\ ParseIsoDate(end) # BadDate
    /\ ~DateLe(ParseIsoDate(start), ParseIsoDate(end))
    /\ response = <<"400", "end must be on/after start">>

----------------------------------------------------------------------------
(* C1, C2, C3, C6, C9: what the arithmetic of the default decimal context  *)
(* and the reading of an empty amount do to the pipeline.                  *)

\* the loop has started
Started == pc \in {"rows", "render", "done", "failed"}

\* the entry of the match list for line i
Entry(i) ==
    [date |-> IsoFormat(DateOf(i)),
     amount |-> FormatF2(AmountOf(i)),
     description |-> DescOf(i)]

\* C1: after any number of records, the match list holds exactly the records
\* taken so far whose date parses and lies in the range (bounds included),
\* whose amount parses and is above zero and whose trimmed description
\* contains the needle under the case rule, once each and in row order.
C1_MatchList ==
    Started =>
        LET Q == InOrder({i \in 1..line_no : Qualifies(i)})
        IN  matches = [k \in 1..Len(Q) |-> Entry(Q[k])]

\* the exact sum of the parsed amounts of the lines in L
RECURSIVE ExactSum(_)
ExactSum(L) ==
    IF L = <<>> THEN Zero
    ELSE ExactAdd(ExactSum(SubSeq(L, 1, Len(L) - 1)), AmountOf(L[Len(L)]))

\* C2: after every record the total is the exact sum of the parsed amounts
\* of the records in the match list, and the count reported is the length of
\* the match list.
C2_ExactTotal ==
    /\ Started =>
          LET L == MatchedLines(line_no)
          IN  Len(L) = Len(matches) /\ NumEq(total, ExactSum(L))
    /\ (pc = "done" /\ format = "json") => response[2].count = Len(matches)

\* C3: the tithe is total * rate rounded half up to two places.
C3_HalfUpTithe ==
    pc \in {"render", "done"} =>
        NumEq(tithe, HalfUp2(ExactMul(total, DecimalOf(rate))))

\* C6: a record in the range whose amount text is empty is skipped as a
\* zero amount: no diagnostic, no match, the total as it was.
C6_EmptyAmountIsZero ==
    [][(/\ AtRow
        /\ DateOf(line_no + 1) # BadDate
        /\ Within(line_no + 1)
        /\ Strip(Fields(data[line_no + 1])[2]) = <<>>) =>
          /\ errors' = errors
          /\ matches' = matches
          /\ total' = total]_vars

\* C9: a request ends rejected before the loop or answered with its result;
\* nothing the parsers accept makes it end otherwise.
C9_TwoOutcomes == pc \in {"start", "rows", "render", "rejected", "done"}

====
